---- MODULE Spec2Model ----
(***************************************************************************)
(* A model of box51 (src/box51/__init__.py): the Box51 asset store.        *)
(*                                                                         *)
(* The file system under asset_root is two maps from file name to file     *)
(* content: perm (files directly under asset_root) and tmp (files under    *)
(* asset_root/tmp).  Every public method of Box51 is modelled as the       *)
(* sequence of file-system calls it makes, one action per call, executed   *)
(* by a worker; Spec runs one worker (calls strictly one after another),   *)
(* SpecConc runs two workers whose steps interleave.                       *)
(***************************************************************************)
EXTENDS Integers, Sequences, FiniteSets, TLC

(***************************************************************************)
(* Bounds of the model.                                                    *)
(***************************************************************************)
\* The largest number of files the store may hold (calls that would create
\* more are not started).
MaxFiles == 3

(***************************************************************************)
(* Program constants.                                                      *)
(***************************************************************************)
KEY_LENGTH == 6

TMP_DIR == "tmp"

SUPPORTED_IMAGE_EXT_IN == {"bmp", "gif", "jpg", "jpeg", "png", "tif", "tiff", "webp"}

(***************************************************************************)
(* Strings.  TLC treats a string as a sequence of one-character strings    *)
(* for Len, SubSeq and \o, which is all the helpers below use.             *)
(***************************************************************************)
CharAt(s, i) == SubSeq(s, i, i)

\* str.startswith
StartsWith(s, p) == Len(p) <= Len(s) /\ SubSeq(s, 1, Len(p)) = p

\* The index of the last "." of s, 0 when there is none (str.rfind + 1).
LastDot(s) ==
    LET dots == {i \in 1..Len(s) : CharAt(s, i) = "."}
    IN  IF dots = {} THEN 0 ELSE CHOOSE i \in dots : \A j \in dots : j <= i

\* The index of the first "." of s, Len(s) + 1 when there is none.
FirstDot(s) ==
    LET dots == {i \in 1..Len(s) : CharAt(s, i) = "."}
    IN  IF dots = {} THEN Len(s) + 1 ELSE CHOOSE i \in dots : \A j \in dots : i <= j

\* os.path.splitext for a name without directory separators: the split is
\* at the last dot, unless only dots precede it.
Splitext(s) ==
    LET d == LastDot(s)
    IN  IF d > 0 /\ \E j \in 1..(d - 1) : CharAt(s, j) # "."
        THEN <<SubSeq(s, 1, d - 1), SubSeq(s, d, Len(s))>>
        ELSE <<s, "">>

UpperCase == "ABCDEFGHIJKLMNOPQRSTUVWXYZ"

LowerCase == "abcdefghijklmnopqrstuvwxyz"

Digits == "0123456789"

\* The lower-case letter of each upper-case letter.
LowerTable ==
    [c \in {CharAt(UpperCase, i) : i \in 1..Len(UpperCase)} |->
        CharAt(LowerCase, CHOOSE i \in 1..Len(UpperCase) : CharAt(UpperCase, i) = c)]

\* Lower-case letters and digits.
Alphanumerics ==
    {CharAt(LowerCase, i) : i \in 1..Len(LowerCase)} \cup {CharAt(Digits, i) : i \in 1..Len(Digits)}

\* str.lower, one character.
LowerChar(c) == IF c \in DOMAIN LowerTable THEN LowerTable[c] ELSE c

RECURSIVE Lower(_)
Lower(s) == IF Len(s) = 0 THEN "" ELSE LowerChar(CharAt(s, 1)) \o Lower(SubSeq(s, 2, Len(s)))

\* Slugify(to_lower, safe_chars '-'), one character: lower case, and the
\* separator '-' for what is neither letter nor digit.
SlugChar(c) ==
    IF LowerChar(c) \in Alphanumerics THEN LowerChar(c) ELSE "-"

RECURSIVE Slugify(_)
Slugify(s) == IF Len(s) = 0 THEN "" ELSE SlugChar(CharAt(s, 1)) \o Slugify(SubSeq(s, 2, Len(s)))

\* '.'.join(parts)
RECURSIVE Join(_)
Join(parts) ==
    IF Len(parts) = 0 THEN ""
    ELSE IF Len(parts) = 1 THEN parts[1]
    ELSE parts[1] \o "." \o Join(Tail(parts))

\* os.path.join(TMP_DIR, filename)
TmpPath(filename) == TMP_DIR \o "/" \o filename

(***************************************************************************)
(* File contents.  A file that is no image is its bytes; an image file is  *)
(* what Pillow decodes from it: format, animation, colour mode, size, the  *)
(* EXIF orientation tag (0: none) and the pixel data (px: the source       *)
(* picture followed by the transforms applied to it).                      *)
(***************************************************************************)
Data(b) == [kind |-> "data", bytes |-> b]

Picture(f, a, m, sz, o, p) ==
    [kind |-> "image", format |-> f, animated |-> a, mode |-> m, size |-> sz,
     orientation |-> o, px |-> p]

\* One entry of px: the source picture (id), or a transform and its numbers.
Px(t, a) == [t |-> t, a |-> a]

\* The uploaded file objects (file.filename, file.stream) a caller passes to
\* store, each with the `name` argument it passes ("" stands for None).
PhotoJpg ==
    [file |-> [filename |-> "Photo.JPG",
               stream |-> Picture("JPEG", FALSE, "RGB", <<1000, 500>>, 6, <<Px("src", <<1>>)>>)],
     name |-> ""]

PhotoPng ==
    [file |-> [filename |-> "photo.png",
               stream |-> Picture("PNG", FALSE, "RGBA", <<40, 30>>, 0, <<Px("src", <<2>>)>>)],
     name |-> ""]

NotesTxt == [file |-> [filename |-> "notes.txt", stream |-> Data("hello")], name |-> "Photo"]

Readme == [file |-> [filename |-> "README", stream |-> Data("readme")], name |-> ""]

Uploads == {PhotoJpg, PhotoPng, NotesTxt, Readme}

\* What shortuuid's uuid() may return; _generate_uid keeps the first
\* KEY_LENGTH characters.
Uuids == {"abc123x7k2", "def456q9m4"}

\* A store key no call has returned, which a caller may still pass.
MissingKeys == {"photo.abc123.png"}

\* Box51._generate_uid
GenerateUid(uuid, length) == SubSeq(uuid, 1, length)

\* Box51._get_type
GetType(ext) == IF Lower(ext) \in SUPPORTED_IMAGE_EXT_IN THEN "image" ELSE "file"

\* Image.transpose: a new image (format None), the size swapped by a
\* quarter turn.
Transpose(im, method) ==
    [im EXCEPT !.format = "",
               !.size = IF method \in {"ROTATE_90", "ROTATE_270"}
                        THEN <<im.size[2], im.size[1]>> ELSE im.size,
               !.px = Append(im.px, Px(method, <<>>))]

\* The orientation branch of _prep_image.
Orient(im) ==
    CASE im.orientation = 2 -> Transpose(im, "FLIP_LEFT_RIGHT")
      [] im.orientation = 3 -> Transpose(im, "ROTATE_180")
      [] im.orientation = 4 -> Transpose(im, "FLIP_TOP_BOTTOM")
      [] im.orientation = 5 -> Transpose(Transpose(im, "FLIP_LEFT_RIGHT"), "ROTATE_90")
      [] im.orientation = 6 -> Transpose(im, "ROTATE_270")
      [] im.orientation = 7 -> Transpose(Transpose(im, "FLIP_TOP_BOTTOM"), "ROTATE_90")
      [] im.orientation = 8 -> Transpose(im, "ROTATE_90")
      [] OTHER -> im

\* Box51._prep_image: <<the stream to store, the meta data>>.  A GIF keeps
\* its stream; any other image is rebuilt from its pixel data and encoded
\* again in the format it had.
PrepImage(stream) ==
    LET im == Orient(stream)
        out == IF im.format = "GIF" THEN stream
               ELSE Picture(stream.format, FALSE, im.mode, im.size, 0, im.px)
    IN  <<out, [image |-> [mode |-> im.mode, size |-> im.size]]>>

\* Box51._get_file_length: the length of the stream, which the model keeps
\* as the stream itself.
GetFileLength(stream) == stream

(***************************************************************************)
(* The transform pipeline.  An operation is [op, arg]; crop takes          *)
(* <<top, right, bottom, left>> in tenths of the dimension, fit takes      *)
(* <<max_width, max_height>>, rotate takes <<degrees>>, and output takes   *)
(* the caller's format dict: format, and ext/optimize/save_all once set    *)
(* ("" and FALSE: the key is absent).                                      *)
(***************************************************************************)
Crop(t, r, b, l) == [op |-> "crop", arg |-> <<t, r, b, l>>]

Fit(w, h) == [op |-> "fit", arg |-> <<w, h>>]

Rotate(d) == [op |-> "rotate", arg |-> <<d>>]

Output(f) == [op |-> "output",
              arg |-> [format |-> f, ext |-> "", optimize |-> FALSE, save_all |-> FALSE]]

\* The dimensions up to 1000 for which Python's double-precision product
\* 0.7 * dimension lies just below the whole number the exact product is.
FloatShort == {90, 170, 180, 330, 340, 350, 360, 650, 660, 670, 680, 690, 700, 710, 720, 730}

\* int(fraction * dimension), the fraction given in tenths and the product
\* taken in double precision, as Python takes it.
Scale(tenths, dim) ==
    (tenths * dim) \div 10 - (IF tenths = 7 /\ dim \in FloatShort THEN 1 ELSE 0)

Max(a, b) == IF a >= b THEN a ELSE b

\* (a variant that reads the fractions as <<left, top, right, bottom>>)
CropImageSwapped(im, arg) ==
    LET box == <<Scale(arg[1], im.size[1]), Scale(arg[2], im.size[2]),
                 Scale(arg[3], im.size[1]), Scale(arg[4], im.size[2])>>
    IN  [im EXCEPT !.format = "",
                   !.size = <<box[3] - box[1], box[4] - box[2]>>,
                   !.px = Append(im.px, Px("crop", box))]

\* Image.crop(box): lines 383-388.
CropImage(im, arg) ==
    LET box == <<Scale(arg[4], im.size[1]), Scale(arg[1], im.size[2]),
                 Scale(arg[2], im.size[1]), Scale(arg[3], im.size[2])>>
    IN  [im EXCEPT !.format = "",
                   !.size = <<box[3] - box[1], box[4] - box[2]>>,
                   !.px = Append(im.px, Px("crop", box))]

\* Image.thumbnail(size): scale down, never up, keeping the aspect ratio.
Thumbnail(im, arg) ==
    LET x0 == im.size[1]
        y0 == im.size[2]
        y1 == IF x0 > arg[1] THEN Max((y0 * arg[1]) \div x0, 1) ELSE y0
        x1 == IF x0 > arg[1] THEN arg[1] ELSE x0
        x2 == IF y1 > arg[2] THEN Max((x1 * arg[2]) \div y1, 1) ELSE x1
        y2 == IF y1 > arg[2] THEN arg[2] ELSE y1
    IN  IF <<x2, y2>> = im.size THEN im
        ELSE [im EXCEPT !.size = <<x2, y2>>, !.px = Append(im.px, Px("fit", <<x2, y2>>))]

\* Lines 395-403.
RotateImage(im, arg) ==
    CASE arg[1] = 90 -> Transpose(im, "ROTATE_270")
      [] arg[1] = 180 -> Transpose(im, "ROTATE_180")
      [] arg[1] = 270 -> Transpose(im, "ROTATE_90")
      [] OTHER -> im

\* Lines 407-422: the output operation's dict becomes fmt and is changed
\* in place.
OutputFmt(arg) ==
    LET a == [arg EXCEPT !.ext = arg.format]
        b == IF a.format = "jpg" THEN [a EXCEPT !.format = "jpeg"] ELSE a
        c == IF b.format \in {"jpeg", "png"} THEN [b EXCEPT !.optimize = TRUE] ELSE b
    IN  IF c.format \in {"gif", "webp"}
        THEN [c EXCEPT !.save_all = TRUE, !.optimize = TRUE] ELSE c

Convert(im, mode) ==
    [im EXCEPT !.format = "", !.mode = mode, !.px = Append(im.px, Px("convert", <<>>))]

\* (a variant that never converts)
CoerceModeNone(im, fmt) == im

\* Lines 427-438: the colour mode the output format needs.
CoerceMode(im, fmt) ==
    IF fmt.format = "gif" /\ im.mode # "P" THEN Convert(im, "P")
    ELSE IF fmt.format = "jpeg" /\ im.mode # "RGB" THEN Convert(im, "RGB")
    ELSE IF fmt.format = "png" /\ im.mode \notin {"P", "RGB", "RGBA"} THEN Convert(im, "RGB")
    ELSE IF fmt.format = "webp" /\ im.mode # "RGBA" THEN Convert(im, "RGBA")
    ELSE im

DefaultFmt == [format |-> "jpeg", ext |-> "jpg", optimize |-> FALSE, save_all |-> FALSE]

\* Lines 378-422: the loop over the operations, from operation i on.  The
\* result holds the image, fmt, and the operation list as the loop leaves
\* it (an output operation's dict is the caller's object).
RECURSIVE ApplyOps(_, _, _, _)
ApplyOps(im, fmt, ops, i) ==
    IF i > Len(ops) THEN [im |-> im, fmt |-> fmt, ops |-> ops]
    ELSE LET o == ops[i]
         IN  CASE o.op = "crop" -> ApplyOps(CropImage(im, o.arg), fmt, ops, i + 1)
               [] o.op = "fit" -> ApplyOps(Thumbnail(im, o.arg), fmt, ops, i + 1)
               [] o.op = "rotate" -> ApplyOps(RotateImage(im, o.arg), fmt, ops, i + 1)
               [] o.op = "output" ->
                    LET f == OutputFmt(o.arg)
                    IN  ApplyOps(im, f, [ops EXCEPT ![i].arg = f], i + 1)
               [] OTHER -> ApplyOps(im, fmt, ops, i + 1)

\* Box51._transform_image
TransformImage(im, ops) ==
    LET r == ApplyOps(im, DefaultFmt, ops, 1)
    IN  [r EXCEPT !.im = CoerceMode(r.im, r.fmt)]

\* Image.save(file, **fmt): the encoded file.
PillowFormat(format) ==
    CASE format = "jpeg" -> "JPEG"
      [] format = "png" -> "PNG"
      [] format = "gif" -> "GIF"
      [] format = "webp" -> "WEBP"
      [] OTHER -> format

Encode(vim, fmt) == Picture(PillowFormat(fmt.format), FALSE, vim.mode, vim.size, 0, vim.px)

\* The variations dicts the callers hold: request id -> the (name, ops)
\* items in the dict's order.
InitialVariations ==
    [r \in {"v1", "v2"} |->
        IF r = "v1"
        THEN << [name |-> "thumb", ops |-> <<Crop(1, 9, 9, 1), Fit(100, 100)>>] >>
        ELSE << [name |-> "small", ops |-> <<Rotate(90), Output("png")>>],
                [name |-> "large", ops |-> <<Output("jpg")>>] >>]

(***************************************************************************)
(* State.                                                                  *)
(***************************************************************************)
VARIABLES
    perm,         \* asset_root: file name -> content
    tmp,          \* asset_root/tmp: file name -> content
    tmpDir,       \* whether the directory asset_root/tmp exists
    variations,   \* the callers' variations dicts (generate_variations changes them)
    proc,         \* per worker: the call in progress and its local variables
    ret,          \* per worker: the outcome of its last completed call
    written,      \* history: how often store and generate_variations wrote each key
    variationOf   \* history: <<store key, key of a variation generated from it>>

vars == <<perm, tmp, tmpDir, variations, proc, ret, written, variationOf>>

Workers == {1, 2}

SeqWorkers == {1}

Idle == [pc |-> "idle"]

NoRet == [op |-> "none"]

EmptyDir == [f \in {} |-> Data("")]

EmptyMap == [f \in {} |-> ""]

NoPath == [dir |-> "none", name |-> ""]

Files == DOMAIN perm \cup DOMAIN tmp


\* The directory `dir` after open(name, 'wb').write(content): the file is
\* created, or truncated and rewritten when it exists.
WriteFile(dir, name, content) ==
    [f \in DOMAIN dir \cup {name} |-> IF f = name THEN content ELSE dir[f]]

\* The directory `dir` without the file `name`.
Unlink(dir, name) == [f \in DOMAIN dir \ {name} |-> dir[f]]

\* Whether the file at `path` exists, and its content.
PathExists(path) ==
    \/ path.dir = "perm" /\ path.name \in DOMAIN perm
    \/ path.dir = "tmp" /\ path.name \in DOMAIN tmp

ReadPath(path) == IF path.dir = "perm" THEN perm[path.name] ELSE tmp[path.name]

\* os.path.exists on a name in the asset root, and in the temporary folder.
\* (a variant that never finds the file)
ExistsPermNever(name) == FALSE

ExistsPerm(name) == name \in DOMAIN perm

\* (a variant that never finds a file in the temporary folder)
ExistsTmpNever(name) == FALSE

ExistsTmp(name) == name \in DOMAIN tmp

\* Box51._get, when nothing else runs between its two checks: the asset
\* root first, then the temporary folder, else (None, None).
Get(store_key) ==
    IF ExistsPerm(store_key) THEN [dir |-> "perm", name |-> store_key]
    ELSE IF ExistsTmp(store_key) THEN [dir |-> "tmp", name |-> store_key]
    ELSE NoPath

\* os.path.splitext(store_key)[0] (lines 66 and 144).
BaseKey(store_key) == Splitext(store_key)[1]

\* (a variant that always writes into the asset root)
StoreDirRoot(temporary) == "perm"

\* Line 244: the folder store writes into.
StoreDir(temporary) == IF temporary THEN "tmp" ELSE "perm"

\* (a variant that always writes into the asset root)
VariationDirRoot(temporary) == "perm"

\* Line 110: the folder generate_variations writes into.
VariationDir(temporary) == IF temporary THEN "tmp" ELSE "perm"

Snapshot == [perm |-> perm, tmp |-> tmp]

Raised(call, exc) == [call EXCEPT !.pc = "raised"] @@ [value |-> exc]

Returned(call, v) == [call EXCEPT !.pc = "returned"] @@ [value |-> v]

\* The call of worker w ends: its outcome is kept in ret, the worker is idle.
Finish(w, outcome) ==
    /\ proc' = [proc EXCEPT ![w] = Idle]
    /\ ret' = [ret EXCEPT ![w] = outcome]

\* The call of worker w goes on (ret is cleared when a call starts).
Goto(w, call) ==
    /\ proc' = [proc EXCEPT ![w] = call]
    /\ ret' = [ret EXCEPT ![w] = NoRet]

\* History: what worker w's last call did if it was make_permanent(store_key)
\* and returned ("noop": it returned at once, "moved": it returned a map),
\* and "" if it was another call.
Prior(w, store_key) ==
    IF ret[w].op = "make_permanent" /\ ret[w].pc = "returned" /\ ret[w].store_key = store_key
    THEN (IF ret[w].value.none THEN "noop" ELSE "moved")
    ELSE ""

\* The history of a write under `key` by store or generate_variations.
NoteWrite(key) ==
    written' = [k \in DOMAIN written \cup {key} |->
                   (IF k \in DOMAIN written THEN written[k] ELSE 0)
                   + (IF k = key THEN 1 ELSE 0)]

Init ==
    /\ perm = EmptyDir
    /\ tmp = EmptyDir
    /\ tmpDir = FALSE
    /\ variations = InitialVariations
    /\ proc = [w \in Workers |-> Idle]
    /\ ret = [w \in Workers |-> NoRet]
    /\ written = [k \in {} |-> 0]
    /\ variationOf = {}

(***************************************************************************)
(* store(file, name, temporary)                                            *)
(***************************************************************************)
\* Lines 192-196: the name argument, or else the file name without its
\* extension, normalized.
StoreName(up) ==
    Slugify(IF up.name = "" THEN Splitext(up.file.filename)[1] ELSE up.name)

\* Line 199: the file name's extension, lower case, without the dot.
StoreExt(up) ==
    LET dotext == Lower(Splitext(up.file.filename)[2])
    IN  SubSeq(dotext, 2, Len(dotext))

\* Lines 188-228: the name and extension, the type and meta data, and the
\* two makedirs.  A file name without extension reaches imghdr.what, and
\* imghdr is not imported: the call raises NameError.
StoreCall(w, uploads) ==
    /\ proc[w].pc = "idle"
    /\ Cardinality(DOMAIN written) < MaxFiles
    /\ \E up \in uploads, temporary \in BOOLEAN :
         LET file == up.file
             name == StoreName(up)
             ext == StoreExt(up)
             asset_type == GetType(ext)
             prep == IF asset_type = "image" THEN PrepImage(file.stream)
                     ELSE <<file.stream, EmptyMap>>
             call == [pc |-> "store_exists_perm", op |-> "store", file |-> file,
                      temporary |-> temporary, name |-> name, ext |-> ext,
                      type |-> asset_type, asset_file |-> prep[1],
                      meta |-> [filename |-> file.filename,
                                length |-> GetFileLength(prep[1])] @@ prep[2],
                      store_key |-> "", collided |-> FALSE, pre |-> Snapshot]
         IN  IF ext = ""
             THEN /\ Finish(w, Raised(call, "NameError"))
                  /\ UNCHANGED tmpDir
             ELSE /\ Goto(w, call)
                  /\ tmpDir' = TRUE
    /\ UNCHANGED <<perm, tmp, variations, written, variationOf>>

\* Lines 230-238: a fresh uid, the store key, and the check of the asset
\* root; `continue` when the key exists there.
StoreExistsPerm(w) ==
    /\ proc[w].pc = "store_exists_perm"
    /\ \E uuid \in Uuids :
         LET uid == GenerateUid(uuid, KEY_LENGTH)
             store_key == Join(<<proc[w].name, uid, proc[w].ext>>)
         IN  proc' = [proc EXCEPT ![w] =
                        [proc[w] EXCEPT !.store_key = store_key,
                                        !.collided = @ \/ ExistsPerm(store_key),
                                        !.pc = IF ExistsPerm(store_key)
                                               THEN "store_exists_perm"
                                               ELSE "store_exists_tmp"]]
    /\ UNCHANGED <<perm, tmp, tmpDir, variations, ret, written, variationOf>>

\* Lines 240-241: the check of the temporary folder.
StoreExistsTmp(w) ==
    /\ proc[w].pc = "store_exists_tmp"
    /\ proc' = [proc EXCEPT ![w].pc = IF ExistsTmp(proc[w].store_key)
                                      THEN "store_exists_perm"
                                      ELSE "store_write",
                             ![w].collided = @ \/ ExistsTmp(proc[w].store_key)]
    /\ UNCHANGED <<perm, tmp, tmpDir, variations, ret, written, variationOf>>

\* The descriptor store returns (lines 250-258).
Descriptor(call) ==
    [ext |-> call.ext, meta |-> call.meta, name |-> call.name,
     store_key |-> call.store_key, temporary |-> call.temporary,
     type |-> call.type, variations |-> <<>>]

\* Lines 243-258: the write and the return.
StoreWrite(w) ==
    /\ proc[w].pc = "store_write"
    /\ LET call == proc[w]
       IN  /\ IF StoreDir(call.temporary) = "tmp"
              THEN /\ tmp' = WriteFile(tmp, call.store_key, call.asset_file)
                   /\ UNCHANGED perm
              ELSE /\ perm' = WriteFile(perm, call.store_key, call.asset_file)
                   /\ UNCHANGED tmp
           /\ Finish(w, Returned(call, Descriptor(call)))
           /\ NoteWrite(call.store_key)
    /\ UNCHANGED <<tmpDir, variations, variationOf>>

(***************************************************************************)
(* _get(store_key), as generate_variations and retrieve call it            *)
(***************************************************************************)
\* Lines 273-274: the check of the asset root.
GetExistsPerm(w) ==
    /\ proc[w].pc = "get_exists_perm"
    /\ proc' = [proc EXCEPT ![w] =
                  IF ExistsPerm(proc[w].store_key)
                  THEN [proc[w] EXCEPT !.path = [dir |-> "perm", name |-> proc[w].store_key],
                                       !.temporary = FALSE,
                                       !.pc = proc[w].after_get]
                  ELSE [proc[w] EXCEPT !.pc = "get_exists_tmp"]]
    /\ UNCHANGED <<perm, tmp, tmpDir, variations, ret, written, variationOf>>

\* Lines 277-281: the check of the temporary folder; (None, None) when the
\* key is in neither.
GetExistsTmp(w) ==
    /\ proc[w].pc = "get_exists_tmp"
    /\ proc' = [proc EXCEPT ![w] =
                  IF ExistsTmp(proc[w].store_key)
                  THEN [proc[w] EXCEPT !.path = [dir |-> "tmp", name |-> proc[w].store_key],
                                       !.temporary = TRUE,
                                       !.pc = proc[w].after_get]
                  ELSE [proc[w] EXCEPT !.path = NoPath,
                                       !.temporary = FALSE,
                                       !.pc = proc[w].after_get]]
    /\ UNCHANGED <<perm, tmp, tmpDir, variations, ret, written, variationOf>>

(***************************************************************************)
(* retrieve(store_key)                                                     *)
(***************************************************************************)
RetrieveCall(w, keys) ==
    /\ proc[w].pc = "idle"
    /\ \E store_key \in keys :
         Goto(w, [pc |-> "get_exists_perm", op |-> "retrieve", store_key |-> store_key,
                  after_get |-> "retrieve_open", path |-> NoPath, temporary |-> FALSE,
                  prior |-> Prior(w, store_key), pre |-> Snapshot])
    /\ UNCHANGED <<perm, tmp, tmpDir, variations, written, variationOf>>

\* (a variant that reads nothing)
RetrieveReadEmpty(path) == Data("")

\* (a variant that wraps the path instead of the file's bytes)
RetrieveReadPath(path) == Data(path.name)

\* Lines 183-184: the whole file, read into a stream.
RetrieveRead(path) == ReadPath(path)

\* Lines 179-186: None when _get found nothing, else the file's bytes; open
\* raises when the file is no longer at the path _get returned.
RetrieveOpen(w) ==
    /\ proc[w].pc = "retrieve_open"
    /\ LET call == proc[w]
       IN  IF call.path = NoPath THEN Finish(w, Returned(call, [none |-> TRUE]))
           ELSE IF PathExists(call.path)
                THEN Finish(w, Returned(call, [none |-> FALSE, stream |-> RetrieveRead(call.path)]))
                ELSE Finish(w, Raised(call, "FileNotFoundError"))
    /\ UNCHANGED <<perm, tmp, tmpDir, variations, written, variationOf>>

(***************************************************************************)
(* remove(store_key)                                                       *)
(***************************************************************************)
\* Lines 165-172: when the key is in the asset root, the loop header reads
\* abs_path_tmp, a name remove never binds: the call raises NameError
\* before it deletes anything.  Otherwise the call returns None.
RemoveCall(w, keys) ==
    /\ proc[w].pc = "idle"
    /\ \E store_key \in keys :
         LET call == [pc |-> "remove", op |-> "remove", store_key |-> store_key,
                      pre |-> Snapshot]
         IN  IF ExistsPerm(store_key)
             THEN Finish(w, Raised(call, "NameError"))
             ELSE Finish(w, Returned(call, [none |-> TRUE]))
    /\ UNCHANGED <<perm, tmp, tmpDir, variations, written, variationOf>>

(***************************************************************************)
(* make_permanent(store_key)                                               *)
(***************************************************************************)
\* (a variant without the check)
IsPermanentNever(store_key) == FALSE

\* Line 137: whether the asset is in the permanent folder already.
IsPermanent(store_key) == ExistsPerm(store_key)

\* History: whether worker w's last call was a make_permanent(store_key)
\* that was interrupted in its loop.
Resumes(w, store_key) ==
    /\ ret[w].op = "make_permanent"
    /\ ret[w].pc = "interrupted"
    /\ ret[w].store_key = store_key

\* Lines 136-144: return at once when the key is in the asset root.
MakePermanentCall(w, keys) ==
    /\ proc[w].pc = "idle"
    /\ \E store_key \in keys :
         LET call == [pc |-> "mp_listdir", op |-> "make_permanent",
                      store_key |-> store_key, base_key |-> BaseKey(store_key),
                      todo |-> {}, filename_remap |-> EmptyMap,
                      prior |-> Prior(w, store_key),
                      resumes |-> Resumes(w, store_key),
                      pre |-> Snapshot]
         IN  IF IsPermanent(store_key)
             THEN Finish(w, Returned(call, [none |-> TRUE]))
             ELSE Goto(w, call)
    /\ UNCHANGED <<perm, tmp, tmpDir, variations, written, variationOf>>

\* (a variant that takes only the files whose name without extension is
\* the base key)
MatchingExact(listing, base_key) == {f \in listing : Splitext(f)[1] = base_key}

\* (a variant that takes every file that shares the part of the base key
\* before its first dot)
MatchingBaseName(listing, base_key) ==
    {f \in listing : StartsWith(f, SubSeq(base_key, 1, FirstDot(base_key) - 1))}

\* The files of a listing the loop of make_permanent acts on (line 151).
Matching(listing, base_key) == {f \in listing : StartsWith(f, base_key)}

\* Line 150: os.listdir of the temporary folder, which raises when the
\* folder does not exist.  The loop then visits the listed names in the
\* order the listing has, which is any order.
MakePermanentListdir(w) ==
    /\ proc[w].pc = "mp_listdir"
    /\ LET call == proc[w]
           todo == Matching(DOMAIN tmp, call.base_key)
       IN  IF ~tmpDir THEN Finish(w, Raised(call, "FileNotFoundError"))
           ELSE IF todo = {}
                THEN Finish(w, Returned(call, [none |-> FALSE, map |-> call.filename_remap]))
                ELSE /\ proc' = [proc EXCEPT ![w] = [call EXCEPT !.todo = todo,
                                                                 !.pc = "mp_rename"]]
                     /\ UNCHANGED ret
    /\ UNCHANGED <<perm, tmp, tmpDir, variations, written, variationOf>>

\* (a variant that copies the file and leaves the source)
RenameCopy(filename) == <<WriteFile(perm, filename, tmp[filename]), tmp>>

\* os.rename(tmp/filename, root/filename): <<perm, tmp>> afterwards.  An
\* existing destination is replaced (POSIX).
Rename(filename) == <<WriteFile(perm, filename, tmp[filename]), Unlink(tmp, filename)>>

\* Lines 153-163, one matching file name: the remap entry, then the
\* rename.  os.rename raises when the source is gone, and on Windows when
\* the destination exists.
MakePermanentRename(w) ==
    /\ proc[w].pc = "mp_rename"
    /\ \E filename \in proc[w].todo, replaces \in BOOLEAN :
         LET call == [proc[w] EXCEPT
                        !.todo = proc[w].todo \ {filename},
                        !.filename_remap =
                            [k \in DOMAIN proc[w].filename_remap \cup {TmpPath(filename)} |->
                                IF k = TmpPath(filename) THEN filename
                                ELSE proc[w].filename_remap[k]]]
         IN  IF ~ExistsTmp(filename)
             THEN /\ Finish(w, Raised(call, "FileNotFoundError"))
                  /\ UNCHANGED <<perm, tmp>>
             ELSE IF ExistsPerm(filename) /\ ~replaces
             THEN /\ Finish(w, Raised(call, "FileExistsError"))
                  /\ UNCHANGED <<perm, tmp>>
             ELSE /\ perm' = Rename(filename)[1]
                  /\ tmp' = Rename(filename)[2]
                  /\ IF call.todo = {}
                     THEN Finish(w, Returned(call, [none |-> FALSE,
                                                    map |-> call.filename_remap]))
                     ELSE /\ proc' = [proc EXCEPT ![w] = call]
                          /\ UNCHANGED ret
    /\ UNCHANGED <<tmpDir, variations, written, variationOf>>

\* Lines 152-161: the loop is left between two renames, after at least one
\* (the process is stopped, or KeyboardInterrupt is raised in it): the
\* files renamed so far stay where they are, the others stay temporary.
MakePermanentInterrupt(w) ==
    /\ proc[w].pc = "mp_rename"
    /\ DOMAIN proc[w].filename_remap # {}
    /\ Finish(w, [proc[w] EXCEPT !.pc = "interrupted"] @@ [value |-> "KeyboardInterrupt"])
    /\ UNCHANGED <<perm, tmp, tmpDir, variations, written, variationOf>>

(***************************************************************************)
(* generate_variations(store_key, variations)                              *)
(***************************************************************************)
\* Lines 62-69: the base key, then _get.
GenerateVariationsCall(w, keys, requests) ==
    /\ proc[w].pc = "idle"
    /\ \E store_key \in keys, req \in requests :
         /\ Cardinality(DOMAIN written) + Len(variations[req]) <= MaxFiles
         /\ Goto(w, [pc |-> "get_exists_perm", op |-> "generate_variations",
                     store_key |-> store_key, req |-> req,
                     base_key |-> BaseKey(store_key),
                     after_get |-> "gv_open", path |-> NoPath, temporary |-> FALSE,
                     im |-> Data(""), i |-> 1, file |-> Data(""), ext |-> "",
                     shown |-> Data(""), var_key |-> "", collided |-> FALSE,
                     new_variations |-> <<>>,
                     pre |-> Snapshot])
    /\ UNCHANGED <<perm, tmp, tmpDir, variations, written, variationOf>>

\* Line 72: Image.open(file_path) raises when _get found nothing, when the
\* file is gone, and when the file is no image.
GenerateVariationsOpen(w) ==
    /\ proc[w].pc = "gv_open"
    /\ LET call == proc[w]
       IN  IF call.path = NoPath THEN Finish(w, Raised(call, "AttributeError"))
           ELSE IF ~PathExists(call.path) THEN Finish(w, Raised(call, "FileNotFoundError"))
           ELSE IF ReadPath(call.path).kind # "image"
                THEN Finish(w, Raised(call, "UnidentifiedImageError"))
           ELSE IF Len(variations[call.req]) = 0 THEN Finish(w, Returned(call, <<>>))
           ELSE /\ proc' = [proc EXCEPT ![w] = [call EXCEPT !.im = ReadPath(call.path),
                                                            !.pc = "gv_transform"]]
                /\ UNCHANGED ret
    /\ UNCHANGED <<perm, tmp, tmpDir, variations, written, variationOf>>

\* (a variant that transforms every image)
IsAnimatedGifNever(im) == FALSE

\* Line 78: whether the transforms are by-passed.
IsAnimatedGif(im) == Lower(im.format) = "gif" /\ im.animated

\* Lines 75-91, one item of the variations dict: an animated gif is read
\* again from its path, any other image is transformed and encoded.  The
\* operation list _transform_image leaves behind is the caller's.
GenerateVariationsTransform(w) ==
    /\ proc[w].pc = "gv_transform"
    /\ LET call == proc[w]
           item == variations[call.req][call.i]
           t == TransformImage(call.im, item.ops)
       IN  IF IsAnimatedGif(call.im)
           THEN /\ IF PathExists(call.path)
                   THEN /\ proc' = [proc EXCEPT ![w] =
                                      [call EXCEPT !.file = ReadPath(call.path),
                                                   !.ext = "gif",
                                                   !.shown = call.im,
                                                   !.pc = "gv_exists_perm"]]
                        /\ UNCHANGED ret
                   ELSE Finish(w, Raised(call, "FileNotFoundError"))
                /\ UNCHANGED variations
           ELSE /\ proc' = [proc EXCEPT ![w] =
                              [call EXCEPT !.file = Encode(t.im, t.fmt),
                                           !.ext = t.fmt.ext,
                                           !.shown = t.im,
                                           !.pc = "gv_exists_perm"]]
                /\ variations' = [variations EXCEPT ![call.req][call.i].ops = t.ops]
                /\ UNCHANGED ret
    /\ UNCHANGED <<perm, tmp, tmpDir, written, variationOf>>

\* Lines 96-104: a fresh uid, the variation key, and the check of the
\* asset root.
GenerateVariationsExistsPerm(w) ==
    /\ proc[w].pc = "gv_exists_perm"
    /\ \E uuid \in Uuids :
         LET call == proc[w]
             uid == GenerateUid(uuid, KEY_LENGTH)
             name == variations[call.req][call.i].name
             var_key == Join(<<call.base_key, name, uid, call.ext>>)
         IN  proc' = [proc EXCEPT ![w] =
                        [call EXCEPT !.var_key = var_key,
                                     !.collided = @ \/ ExistsPerm(var_key),
                                     !.pc = IF ExistsPerm(var_key)
                                            THEN "gv_exists_perm"
                                            ELSE "gv_exists_tmp"]]
    /\ UNCHANGED <<perm, tmp, tmpDir, variations, ret, written, variationOf>>

\* Lines 106-107: the check of the temporary folder.
GenerateVariationsExistsTmp(w) ==
    /\ proc[w].pc = "gv_exists_tmp"
    /\ proc' = [proc EXCEPT ![w].pc = IF ExistsTmp(proc[w].var_key)
                                      THEN "gv_exists_perm"
                                      ELSE "gv_write",
                             ![w].collided = @ \/ ExistsTmp(proc[w].var_key)]
    /\ UNCHANGED <<perm, tmp, tmpDir, variations, ret, written, variationOf>>

\* The variation's descriptor (lines 117-128).
VariationDescriptor(call, name) ==
    [name |-> name, store_key |-> call.var_key, ext |-> call.ext,
     meta |-> [length |-> GetFileLength(call.file),
               image |-> [mode |-> call.shown.mode, size |-> call.shown.size]]]

\* Lines 109-130: the write into the folder _get found the asset in, the
\* descriptor, and the next item or the return.
GenerateVariationsWrite(w) ==
    /\ proc[w].pc = "gv_write"
    /\ LET call == proc[w]
           name == variations[call.req][call.i].name
           done == [call EXCEPT !.new_variations =
                                    Append(call.new_variations, VariationDescriptor(call, name)),
                                !.i = call.i + 1,
                                !.pc = "gv_transform"]
       IN  /\ IF VariationDir(call.temporary) = "tmp"
              THEN /\ tmp' = WriteFile(tmp, call.var_key, call.file)
                   /\ UNCHANGED perm
              ELSE /\ perm' = WriteFile(perm, call.var_key, call.file)
                   /\ UNCHANGED tmp
           /\ NoteWrite(call.var_key)
           /\ variationOf' = variationOf \cup {<<call.store_key, call.var_key>>}
           /\ IF call.i = Len(variations[call.req])
              THEN Finish(w, Returned(done, done.new_variations))
              ELSE /\ proc' = [proc EXCEPT ![w] = done]
                   /\ UNCHANGED ret
    /\ UNCHANGED <<tmpDir, variations>>

(***************************************************************************)
(* The specifications.                                                     *)
(***************************************************************************)
\* What a caller may pass as store key: a key of a stored file, or one
\* that no file has.
KeyArgs == Files \cup MissingKeys

\* The steps of the methods, which no caller input decides.
Step(w) ==
    \/ StoreExistsPerm(w)
    \/ StoreExistsTmp(w)
    \/ StoreWrite(w)
    \/ GetExistsPerm(w)
    \/ GetExistsTmp(w)
    \/ RetrieveOpen(w)
    \/ MakePermanentListdir(w)
    \/ MakePermanentRename(w)
    \/ GenerateVariationsOpen(w)
    \/ GenerateVariationsTransform(w)
    \/ GenerateVariationsExistsPerm(w)
    \/ GenerateVariationsExistsTmp(w)
    \/ GenerateVariationsWrite(w)

\* One caller: every call runs to its end before the next starts.
Next ==
    \E w \in SeqWorkers :
        \/ StoreCall(w, Uploads)
        \/ RetrieveCall(w, KeyArgs)
        \/ RemoveCall(w, KeyArgs)
        \/ MakePermanentCall(w, KeyArgs)
        \/ GenerateVariationsCall(w, KeyArgs, DOMAIN variations)
        \/ Step(w)

Spec == Init /\ [][Next]_vars

\* The same caller, on an asset root whose temporary folder holds three
\* files that share the base name 'photo' and nothing else.
SeededTmp ==
    [f \in {"photo.abc123.jpg", "photo.thumb.def456.jpg", "photo.large.ghi789.jpg"} |->
        IF f = "photo.abc123.jpg"
        THEN Picture("JPEG", FALSE, "RGB", <<500, 1000>>, 0, <<Px("src", <<1>>)>>)
        ELSE IF f = "photo.thumb.def456.jpg"
        THEN Picture("JPEG", FALSE, "RGB", <<50, 100>>, 0, <<Px("src", <<3>>)>>)
        ELSE Picture("JPEG", FALSE, "RGB", <<400, 800>>, 0, <<Px("src", <<4>>)>>)]

InitSeeded ==
    /\ perm = EmptyDir
    /\ tmp = SeededTmp
    /\ tmpDir = TRUE
    /\ variations = InitialVariations
    /\ proc = [w \in Workers |-> Idle]
    /\ ret = [w \in Workers |-> NoRet]
    /\ written = [k \in {} |-> 0]
    /\ variationOf = {}

\* Its calls: the text file is stored, any file is promoted, and the other
\* calls are made for the first of the three pictures.
NextSeeded ==
    \E w \in SeqWorkers :
        \/ StoreCall(w, {NotesTxt})
        \/ RetrieveCall(w, {"photo.abc123.jpg"})
        \/ RemoveCall(w, {"photo.abc123.jpg"})
        \/ MakePermanentCall(w, KeyArgs)
        \/ GenerateVariationsCall(w, {"photo.abc123.jpg"}, {"v1"})
        \/ Step(w)

SpecSeeded == InitSeeded /\ [][NextSeeded]_vars

\* Two callers at once (the workers of one process), after
\* store(Photo.JPG, temporary=False) and store(photo.png, temporary=True)
\* have returned keys with the same uid: the callers generate variations
\* of the two assets and promote them, and the steps of their calls
\* interleave in any order.
InitConc ==
    /\ perm = [f \in {"photo.abc123.jpg"} |-> PrepImage(PhotoJpg.file.stream)[1]]
    /\ tmp = [f \in {"photo.abc123.png"} |-> PrepImage(PhotoPng.file.stream)[1]]
    /\ tmpDir = TRUE
    /\ variations = InitialVariations
    /\ proc = [w \in Workers |-> Idle]
    /\ ret = [w \in Workers |-> NoRet]
    /\ written = [k \in {"photo.abc123.jpg", "photo.abc123.png"} |-> 1]
    /\ variationOf = {}

NextConc ==
    \E w \in Workers :
        \/ MakePermanentCall(w, {"photo.abc123.jpg", "photo.abc123.png"})
        \/ GenerateVariationsCall(w, {"photo.abc123.jpg", "photo.abc123.png"}, {"v1"})
        \/ GetExistsPerm(w)
        \/ GetExistsTmp(w)
        \/ MakePermanentListdir(w)
        \/ MakePermanentRename(w)
        \/ GenerateVariationsOpen(w)
        \/ GenerateVariationsTransform(w)
        \/ GenerateVariationsExistsPerm(w)
        \/ GenerateVariationsExistsTmp(w)
        \/ GenerateVariationsWrite(w)

SpecConc == InitConc /\ [][NextConc]_vars

(***************************************************************************)
(* Properties.  A worker that is idle shows in ret the outcome of its last *)
(* call: the call's local variables, pre (both folders as the call found   *)
(* them), and pc "returned" with the value or "raised" with the exception. *)
(* With one caller, nothing has touched the folders since that call ended. *)
(***************************************************************************)
AtEnd(w, op) == proc[w].pc = "idle" /\ ret[w].op = op

AtReturn(w, op) == AtEnd(w, op) /\ ret[w].pc = "returned"

\* The keys _generate_uid can complete `prefix` and `ext` to.
KeysFor(prefix, ext) == {Join(prefix \o <<GenerateUid(u, KEY_LENGTH), ext>>) : u \in Uuids}

\* C1: store and generate_variations write only under a key that neither
\* folder holds at the moment of the write, also after the generator has
\* returned identifiers in use: no key is ever written twice, so no file is
\* overwritten and no two calls return the same key.
C1_KeysUniqueAtCreation ==
    /\ \A w \in Workers :
         /\ proc[w].pc = "store_write" => proc[w].store_key \notin Files
         /\ proc[w].pc = "gv_write" => proc[w].var_key \notin Files
    /\ \A k \in DOMAIN written : written[k] = 1
    /\ \A w \in Workers :
         /\ AtReturn(w, "store") =>
              /\ ret[w].value.store_key \notin DOMAIN ret[w].pre.perm \cup DOMAIN ret[w].pre.tmp
              /\ ret[w].value.store_key \in Files
         /\ AtReturn(w, "generate_variations") =>
              \A i \in 1..Len(ret[w].value) :
                 /\ ret[w].value[i].store_key
                       \notin DOMAIN ret[w].pre.perm \cup DOMAIN ret[w].pre.tmp
                 /\ \A j \in 1..Len(ret[w].value) :
                       ret[w].value[i].store_key = ret[w].value[j].store_key => i = j

\* A store has returned after the generator gave it a key in use, and
\* the colliding file is still there beside the new one.
C1_Witness ==
    \E w \in Workers :
       /\ AtReturn(w, "store")
       /\ ret[w].collided
       /\ Cardinality(KeysFor(<<ret[w].name>>, ret[w].ext) \cap Files) = 2

\* C2: from an empty asset root, no file name is in the asset root and in
\* the temporary folder at once.
C2_OneNamespace == DOMAIN perm \cap DOMAIN tmp = {}

\* make_permanent has moved several files while others stay temporary.
C2_Witness ==
    \E w \in Workers :
       /\ AtReturn(w, "make_permanent")
       /\ ~ret[w].value.none
       /\ Cardinality(DOMAIN ret[w].value.map) >= 2
       /\ DOMAIN tmp # {}

\* C3: after store(file, temporary) returns key k, _get finds k in the
\* folder the argument names and k is not in the other folder; the
\* descriptor's 'temporary' is the argument.
C3_StoreNamespace ==
    \A w \in Workers :
       AtReturn(w, "store") =>
          LET k == ret[w].value.store_key
          IN  /\ ret[w].value.temporary = ret[w].temporary
              /\ IF ret[w].temporary
                 THEN Get(k) = [dir |-> "tmp", name |-> k] /\ k \in DOMAIN tmp /\ k \notin DOMAIN perm
                 ELSE Get(k) = [dir |-> "perm", name |-> k] /\ k \in DOMAIN perm /\ k \notin DOMAIN tmp

\* A temporary store has returned while the asset root holds files too.
C3_Witness ==
    \E w \in Workers :
       /\ AtReturn(w, "store")
       /\ ret[w].temporary
       /\ DOMAIN perm # {}

\* The variations generate_variations has made from store key k.
VariationsOf(k) == {p[2] : p \in {q \in variationOf : q[1] = k}}

\* C4: make_permanent(k) for a temporary asset k returns a map; k and
\* every variation generated from k are then in the asset root, with the
\* content they had, and not in the temporary folder; the map has exactly
\* the entries 'tmp/<filename>' -> '<filename>' of the files moved.
C4_PromotionMovesGroup ==
    \A w \in Workers :
       LET k == ret[w].store_key
           pre == ret[w].pre
           moved == DOMAIN pre.tmp \ DOMAIN tmp
       IN  (AtEnd(w, "make_permanent") /\ k \in DOMAIN pre.tmp /\ k \notin DOMAIN pre.perm) =>
              /\ ret[w].pc = "returned"
              /\ ~ret[w].value.none
              /\ \A f \in {k} \cup VariationsOf(k) :
                    /\ f \in DOMAIN perm
                    /\ f \notin DOMAIN tmp
                    /\ perm[f] = (IF f \in DOMAIN pre.tmp THEN pre.tmp[f] ELSE pre.perm[f])
              /\ {k} \cup (VariationsOf(k) \cap DOMAIN pre.tmp) \subseteq moved
              /\ DOMAIN ret[w].value.map = {TmpPath(f) : f \in moved}
              /\ \A f \in moved : ret[w].value.map[TmpPath(f)] = f
              /\ Cardinality(DOMAIN ret[w].value.map) = Cardinality(moved)

\* A temporary asset with two variations has been promoted.
C4_Witness ==
    \E w \in Workers :
       /\ AtReturn(w, "make_permanent")
       /\ ret[w].store_key \in DOMAIN ret[w].pre.tmp
       /\ Cardinality(VariationsOf(ret[w].store_key)) = 2
       /\ VariationsOf(ret[w].store_key) \subseteq DOMAIN ret[w].pre.tmp
       /\ Cardinality(DOMAIN ret[w].value.map) = 3

\* C6: make_permanent(k) called again right after make_permanent(k) has
\* returned, for the key k of a stored object: the second call returns at
\* once with no map, raises nothing, and leaves both folders as they were.
C6_SecondPromotionNoOp ==
    \A w \in Workers :
       (AtEnd(w, "make_permanent") /\ ret[w].prior # "" /\ ret[w].store_key \in DOMAIN written) =>
          /\ ret[w].pc = "returned"
          /\ ret[w].value.none
          /\ ret[w].todo = {}
          /\ perm = ret[w].pre.perm
          /\ tmp = ret[w].pre.tmp

\* The second call has returned after a first call that moved an asset
\* and a variation of it.
C6_Witness ==
    \E w \in Workers :
       /\ AtReturn(w, "make_permanent")
       /\ ret[w].prior = "moved"
       /\ ret[w].store_key \in DOMAIN written
       /\ VariationsOf(ret[w].store_key) # {}

\* C8 (as claimed): remove(k) with k in the asset root ends without error
\* and leaves no file of k's prefix in the asset root and the temporary
\* folder unchanged; with k not in the asset root it changes nothing.
C8_RemoveDeletesGroup ==
    \A w \in Workers :
       AtEnd(w, "remove") =>
          IF ret[w].store_key \in DOMAIN ret[w].pre.perm
          THEN /\ ret[w].pc = "returned"
               /\ \A f \in DOMAIN perm : ~StartsWith(f, Splitext(ret[w].store_key)[1])
               /\ tmp = ret[w].pre.tmp
          ELSE perm = ret[w].pre.perm /\ tmp = ret[w].pre.tmp

\* C9: retrieve(k) returns None exactly when k is in neither folder, else
\* the content stored under k (the asset root's, if k is there), and
\* leaves both folders unchanged; for the key of a stored file that is no
\* image, the content is the uploaded stream.
C9_RetrieveReturnsStored ==
    \A w \in Workers :
       AtEnd(w, "retrieve") =>
          LET k == ret[w].store_key
              pre == ret[w].pre
          IN  /\ ret[w].pc = "returned"
              /\ ret[w].value.none <=> k \notin DOMAIN pre.perm \cup DOMAIN pre.tmp
              /\ k \in DOMAIN pre.perm => ret[w].value.stream = pre.perm[k]
              /\ (k \notin DOMAIN pre.perm /\ k \in DOMAIN pre.tmp) =>
                    ret[w].value.stream = pre.tmp[k]
              /\ perm = pre.perm
              /\ tmp = pre.tmp
              /\ \A up \in Uploads :
                    (/\ GetType(StoreExt(up)) = "file"
                     /\ k \in DOMAIN written
                     /\ k \in KeysFor(<<StoreName(up)>>, StoreExt(up))) =>
                        /\ ~ret[w].value.none
                        /\ ret[w].value.stream = up.file.stream

\* The uploaded text file has been retrieved right after its promotion.
C9_Witness ==
    \E w \in Workers :
       /\ AtReturn(w, "retrieve")
       /\ ret[w].prior = "moved"
       /\ ~ret[w].value.none
       /\ ret[w].value.stream = NotesTxt.file.stream

\* C10: generate_variations(k, variations) returns one descriptor per
\* requested name, in the dict's order; each one's store_key is
\* '<k without extension>.<name>.<uid>.<ext>', was written by this call,
\* and is in the folder _get found k in when the call started, and not in
\* the other.
C10_VariationPlacement ==
    \A w \in Workers :
       AtReturn(w, "generate_variations") =>
          LET k == ret[w].store_key
              pre == ret[w].pre
              items == variations[ret[w].req]
              val == ret[w].value
          IN  /\ Len(val) = Len(items)
              /\ \A i \in 1..Len(val) :
                    /\ val[i].name = items[i].name
                    /\ val[i].store_key \in KeysFor(<<Splitext(k)[1], items[i].name>>, val[i].ext)
                    /\ val[i].store_key \notin DOMAIN pre.perm \cup DOMAIN pre.tmp
                    /\ IF k \in DOMAIN pre.perm
                       THEN val[i].store_key \in DOMAIN perm /\ val[i].store_key \notin DOMAIN tmp
                       ELSE val[i].store_key \in DOMAIN tmp /\ val[i].store_key \notin DOMAIN perm

\* Two variations of a temporary asset have been generated in one call.
C10_Witness ==
    \E w \in Workers :
       /\ AtReturn(w, "generate_variations")
       /\ Len(ret[w].value) = 2
       /\ ret[w].store_key \in DOMAIN ret[w].pre.tmp
       /\ ret[w].value[1].ext # ret[w].value[2].ext

\* The part of a store key before its first dot: the base name.
BaseName(k) == SubSeq(k, 1, FirstDot(k) - 1)

\* C5 (as claimed): make_permanent(k) moves every temporary file whose name
\* starts with k's base name, the part before the unique id, and returns
\* one entry for each; so of photo.abc123.jpg, photo.thumb.def456.jpg and
\* photo.large.ghi789.jpg it moves all three and returns 3 entries.
C5_GroupIsBaseName ==
    \A w \in Workers :
       LET k == ret[w].store_key
           pre == ret[w].pre
           group == {f \in DOMAIN pre.tmp : StartsWith(f, BaseName(k))}
       IN  (AtEnd(w, "make_permanent") /\ k \notin DOMAIN pre.perm) =>
              /\ ret[w].pc = "returned"
              /\ ~ret[w].value.none
              /\ group \subseteq DOMAIN perm
              /\ group \cap DOMAIN tmp = {}
              /\ Cardinality(DOMAIN ret[w].value.map) = Cardinality(group)

\* C5 (amended): make_permanent(k) moves exactly the temporary files whose
\* name starts with k without its extension (base name and unique id) and
\* returns one entry for each; so of photo.abc123.jpg,
\* photo.thumb.def456.jpg and photo.large.ghi789.jpg it moves the first
\* alone and returns 1 entry.
C5_GroupIsKeyWithoutExtension ==
    \A w \in Workers :
       LET k == ret[w].store_key
           pre == ret[w].pre
           group == {f \in DOMAIN pre.tmp : StartsWith(f, Splitext(k)[1])}
       IN  (AtEnd(w, "make_permanent") /\ k \notin DOMAIN pre.perm) =>
              /\ ret[w].pc = "returned"
              /\ ~ret[w].value.none
              /\ DOMAIN pre.tmp \ DOMAIN tmp = group
              /\ DOMAIN perm = DOMAIN pre.perm \cup group
              /\ DOMAIN ret[w].value.map = {TmpPath(f) : f \in group}
              /\ Cardinality(DOMAIN ret[w].value.map) = Cardinality(group)
              /\ (k = "photo.abc123.jpg" /\ DOMAIN pre.tmp = DOMAIN SeededTmp) =>
                    /\ "photo.abc123.jpg" \in DOMAIN perm
                    /\ {"photo.thumb.def456.jpg", "photo.large.ghi789.jpg"} \subseteq DOMAIN tmp
                    /\ Cardinality(DOMAIN ret[w].value.map) = 1

\* photo.abc123.jpg has been promoted out of the three files.
C5_Witness ==
    \E w \in Workers :
       /\ AtReturn(w, "make_permanent")
       /\ ret[w].store_key = "photo.abc123.jpg"
       /\ DOMAIN ret[w].pre.tmp = DOMAIN SeededTmp
       /\ ~ret[w].value.none
       /\ Cardinality(DOMAIN ret[w].value.map) = 1

\* C7 (as claimed): the rename step of make_permanent leaves every file
\* that is in the asset root before it in the asset root with the same
\* content: a name that is already there is skipped.
C7_RenameSkipsExisting ==
    [][\A w \in Workers :
          (proc[w].pc = "mp_rename" /\ proc'[w] # proc[w]) =>
             \A f \in DOMAIN perm : f \in DOMAIN perm' /\ perm'[f] = perm[f]]_vars

(***************************************************************************)
(* Termination.  A call that has started keeps running: the steps of the   *)
(* one caller's call are weakly fair.                                      *)
(***************************************************************************)
SpecFair == Init /\ [][Next]_vars /\ \A w \in SeqWorkers : WF_vars(Step(w))

\* Worker w is in the key loop of store or generate_variations and every
\* key the generator can make for it names a file that exists.
Exhausted(w) ==
    \/ /\ proc[w].pc \in {"store_exists_perm", "store_exists_tmp"}
       /\ KeysFor(<<proc[w].name>>, proc[w].ext) \subseteq Files
    \/ /\ proc[w].pc \in {"gv_exists_perm", "gv_exists_tmp"}
       /\ KeysFor(<<proc[w].base_key, variations[proc[w].req][proc[w].i].name>>,
                  proc[w].ext) \subseteq Files

\* C11 (as claimed): when every identifier the generator produces makes a
\* key that exists already, the key loop of store and generate_variations
\* gives up after a bounded number of attempts and the call ends.
C11_RetryLoopEnds ==
    \A w \in SeqWorkers : Exhausted(w) ~> proc[w].pc = "idle"

\* C12 (as claimed): store of a file whose name has no extension takes the
\* extension from the content and ends normally: it returns a descriptor
\* and the object is on disk under the descriptor's key.
C12_StoreInfersExtension ==
    \A w \in Workers :
       (AtEnd(w, "store") /\ Splitext(ret[w].file.filename)[2] = "") =>
          /\ ret[w].pc = "returned"
          /\ ret[w].value.store_key \in Files

(***************************************************************************)
(* The image pipeline.  One caller stores one picture and generates        *)
(* variations of it, and of its variations, from a larger set of pictures  *)
(* and of variations dicts.                                                *)
(***************************************************************************)
\* An animated gif.
SpinGif ==
    [file |-> [filename |-> "spin.gif",
               stream |-> Picture("GIF", TRUE, "P", <<20, 10>>, 0, <<Px("src", <<5>>)>>)],
     name |-> ""]

\* A gif of one frame.
IconGif ==
    [file |-> [filename |-> "icon.gif",
               stream |-> Picture("GIF", FALSE, "P", <<16, 16>>, 0, <<Px("src", <<6>>)>>)],
     name |-> ""]

WidePng ==
    [file |-> [filename |-> "wide.png",
               stream |-> Picture("PNG", FALSE, "RGBA", <<1000, 500>>, 0, <<Px("src", <<7>>)>>)],
     name |-> ""]

GreyJpg ==
    [file |-> [filename |-> "grey.jpeg",
               stream |-> Picture("JPEG", FALSE, "L", <<90, 60>>, 0, <<Px("src", <<8>>)>>)],
     name |-> ""]

PrintTif ==
    [file |-> [filename |-> "print.tif",
               stream |-> Picture("TIFF", FALSE, "CMYK", <<300, 200>>, 0, <<Px("src", <<9>>)>>)],
     name |-> ""]

ImageUploads == {SpinGif, IconGif, WidePng, GreyJpg, PrintTif, PhotoJpg}

\* The variations dicts of this caller.
ImageVariations ==
    [r \in {"crop", "fitcrop", "turn", "gif", "jpg", "last", "pair"} |->
        CASE r = "crop" -> << [name |-> "thumb", ops |-> <<Crop(1, 9, 9, 1)>>] >>
          [] r = "fitcrop" ->
               << [name |-> "strip", ops |-> <<Fit(100, 100), Crop(0, 7, 10, 0)>>] >>
          [] r = "turn" ->
               << [name |-> "turn",
                   ops |-> <<Rotate(90), Crop(1, 9, 9, 1), Output("webp")>>] >>
          [] r = "gif" -> << [name |-> "anim", ops |-> <<Crop(2, 10, 10, 0), Output("gif")>>] >>
          [] r = "jpg" -> << [name |-> "large", ops |-> <<Output("jpg")>>] >>
          [] r = "last" -> << [name |-> "last", ops |-> <<Output("webp"), Output("png")>>] >>
          [] OTHER -> << [name |-> "small", ops |-> <<Rotate(90), Output("png")>>],
                         [name |-> "large", ops |-> <<Fit(100, 100), Output("jpg")>>] >>]

InitImages ==
    /\ perm = EmptyDir
    /\ tmp = EmptyDir
    /\ tmpDir = FALSE
    /\ variations = ImageVariations
    /\ proc = [w \in Workers |-> Idle]
    /\ ret = [w \in Workers |-> NoRet]
    /\ written = [k \in {} |-> 0]
    /\ variationOf = {}

NextImages ==
    \E w \in SeqWorkers :
        \/ StoreCall(w, IF Files = {} THEN ImageUploads ELSE {})
        \/ StoreExistsPerm(w)
        \/ StoreExistsTmp(w)
        \/ StoreWrite(w)
        \/ GenerateVariationsCall(w, Files, DOMAIN ImageVariations)
        \/ GetExistsPerm(w)
        \/ GetExistsTmp(w)
        \/ GenerateVariationsOpen(w)
        \/ GenerateVariationsTransform(w)
        \/ GenerateVariationsExistsPerm(w)
        \/ GenerateVariationsExistsTmp(w)
        \/ GenerateVariationsWrite(w)

SpecImages == InitImages /\ [][NextImages]_vars

\* The content a call of worker w found under its store key when it
\* started (the asset root's, if the key was there).
SourceOf(w) ==
    IF ret[w].store_key \in DOMAIN ret[w].pre.perm
    THEN ret[w].pre.perm[ret[w].store_key]
    ELSE ret[w].pre.tmp[ret[w].store_key]

\* The content now on disk under `key`.
ContentOf(key) == IF key \in DOMAIN perm THEN perm[key] ELSE tmp[key]

\* C13: generate_variations of an animated gif returns, for every
\* requested variation and whatever its operations, a descriptor with ext
\* 'gif' whose key ends in '.gif' and holds a file that is byte for byte
\* the source file.
C13_AnimatedGifBypass ==
    \A w \in Workers :
       (/\ AtEnd(w, "generate_variations")
        /\ ret[w].store_key \in DOMAIN ret[w].pre.perm \cup DOMAIN ret[w].pre.tmp
        /\ SourceOf(w).kind = "image"
        /\ SourceOf(w).format = "GIF"
        /\ SourceOf(w).animated) =>
          /\ ret[w].pc = "returned"
          /\ Len(ret[w].value) = Len(variations[ret[w].req])
          /\ \A i \in 1..Len(ret[w].value) :
                /\ ret[w].value[i].ext = "gif"
                /\ Splitext(ret[w].value[i].store_key)[2] = ".gif"
                /\ ret[w].value[i].store_key \in Files
                /\ ContentOf(ret[w].value[i].store_key) = SourceOf(w)

\* Two variations of the animated gif, one with a rotation and a png
\* output, have been generated in one call.
C13_Witness ==
    \E w \in Workers :
       /\ AtReturn(w, "generate_variations")
       /\ ret[w].req = "pair"
       /\ SourceOf(w).format = "GIF"
       /\ SourceOf(w).animated
       /\ Len(ret[w].value) = 2

\* The output format an operation list selects: that of its last output
\* operation ('jpg' names jpeg), and jpeg when it has none.
FinalFormat(ops) ==
    LET outs == SelectSeq(ops, LAMBDA o : o.op = "output")
        f == outs[Len(outs)].arg.format
    IN  IF outs = <<>> THEN "jpeg" ELSE IF f = "jpg" THEN "jpeg" ELSE f

\* The colour mode the claim allots to an output format and an input mode.
AllowedMode(format, mode) ==
    CASE format = "gif" -> "P"
      [] format = "jpeg" -> "RGB"
      [] format = "png" -> IF mode \in {"P", "RGB", "RGBA"} THEN mode ELSE "RGB"
      [] format = "webp" -> "RGBA"
      [] OTHER -> mode

\* Worker w's last call was generate_variations of an image that is no
\* animated gif.
AtEndOfTransforms(w) ==
    /\ AtEnd(w, "generate_variations")
    /\ ret[w].store_key \in DOMAIN ret[w].pre.perm \cup DOMAIN ret[w].pre.tmp
    /\ SourceOf(w).kind = "image"
    /\ ~(SourceOf(w).format = "GIF" /\ SourceOf(w).animated)

\* C14: whatever the colour mode of the source and the operations, the
\* image that is encoded has the mode of the selected output format: P
\* for gif, RGB for jpeg, RGBA for webp and, for png, the source's mode if
\* that is P, RGB or RGBA and RGB otherwise; the file is encoded in that
\* format.
C14_ModeOfOutputFormat ==
    \A w \in Workers :
       AtEndOfTransforms(w) =>
          /\ ret[w].pc = "returned"
          /\ \A i \in 1..Len(ret[w].value) :
                LET final == FinalFormat(variations[ret[w].req][i].ops)
                    out == ContentOf(ret[w].value[i].store_key)
                IN  /\ out.mode = AllowedMode(final, SourceOf(w).mode)
                    /\ ret[w].value[i].meta.image.mode = out.mode
                    /\ out.format = PillowFormat(final)
                    /\ (final = "webp" /\ SourceOf(w).mode = "RGB") => out.mode = "RGBA"
                    /\ (final = "jpeg" /\ SourceOf(w).mode = "RGBA") => out.mode = "RGB"

\* An RGBA picture has gone through a png and a jpeg output in one call,
\* and the jpeg is RGB.
C14_Witness ==
    \E w \in Workers :
       /\ AtEndOfTransforms(w)
       /\ ret[w].pc = "returned"
       /\ ret[w].req = "pair"
       /\ SourceOf(w).mode = "RGBA"
       /\ ContentOf(ret[w].value[2].store_key).mode = "RGB"

\* The pixel boxes <<left, top, right, bottom>> the claim gives for the crop
\* operations of a list, from operation i on, for an image of the given
\* size: each fraction times the width or height the image has when the
\* crop runs, cut to a whole number.
RECURSIVE ClaimedBoxes(_, _, _)
ClaimedBoxes(size, ops, i) ==
    IF i > Len(ops) THEN <<>>
    ELSE LET o == ops[i]
             box == <<Scale(o.arg[4], size[1]), Scale(o.arg[1], size[2]),
                      Scale(o.arg[2], size[1]), Scale(o.arg[3], size[2])>>
             sized == Picture("", FALSE, "RGB", size, 0, <<>>)
         IN  CASE o.op = "crop" ->
                    <<box>> \o ClaimedBoxes(<<box[3] - box[1], box[4] - box[2]>>, ops, i + 1)
               [] o.op = "fit" -> ClaimedBoxes(Thumbnail(sized, o.arg).size, ops, i + 1)
               [] o.op = "rotate" -> ClaimedBoxes(RotateImage(sized, o.arg).size, ops, i + 1)
               [] OTHER -> ClaimedBoxes(size, ops, i + 1)

\* The boxes of the crops that made the picture `out` from the picture
\* `src`, in their order.
CropBoxes(src, out) ==
    LET added == SubSeq(out.px, Len(src.px) + 1, Len(out.px))
        crops == SelectSeq(added, LAMBDA e : e.t = "crop")
    IN  [j \in 1..Len(crops) |-> crops[j].a]

\* C15: every crop of an operation list cuts the box left = left*width,
\* top = top*height, right = right*width, bottom = bottom*height, cut to
\* whole numbers, of the width and height the image has when the crop
\* runs; crop(top=0.1, right=0.9, bottom=0.9, left=0.1) of a 1000x500
\* image cuts <<100, 50, 900, 450>>.
C15_CropBox ==
    \A w \in Workers :
       AtEndOfTransforms(w) =>
          /\ ret[w].pc = "returned"
          /\ \A i \in 1..Len(ret[w].value) :
                LET ops == variations[ret[w].req][i].ops
                    out == ContentOf(ret[w].value[i].store_key)
                IN  /\ CropBoxes(SourceOf(w), out) = ClaimedBoxes(SourceOf(w).size, ops, 1)
                    /\ (SourceOf(w).size = <<1000, 500>> /\ ret[w].req = "crop") =>
                          CropBoxes(SourceOf(w), out) = << <<100, 50, 900, 450>> >>

\* The 1000x500 picture has been cropped by (0.1, 0.9, 0.9, 0.1).
C15_Witness ==
    \E w \in Workers :
       /\ AtEndOfTransforms(w)
       /\ ret[w].pc = "returned"
       /\ ret[w].req = "crop"
       /\ SourceOf(w).size = <<1000, 500>>
       /\ CropBoxes(SourceOf(w), ContentOf(ret[w].value[1].store_key))
             = << <<100, 50, 900, 450>> >>

(***************************************************************************)
(* Interrupted promotion.  One caller stores the photo, generates          *)
(* variations and promotes; a promotion may be interrupted in its loop.    *)
(***************************************************************************)
NextInterrupt ==
    \E w \in SeqWorkers :
        \/ StoreCall(w, {PhotoJpg, NotesTxt})
        \/ StoreExistsPerm(w)
        \/ StoreExistsTmp(w)
        \/ StoreWrite(w)
        \/ GenerateVariationsCall(w, DOMAIN written, DOMAIN variations)
        \/ GetExistsPerm(w)
        \/ GetExistsTmp(w)
        \/ GenerateVariationsOpen(w)
        \/ GenerateVariationsTransform(w)
        \/ GenerateVariationsExistsPerm(w)
        \/ GenerateVariationsExistsTmp(w)
        \/ GenerateVariationsWrite(w)
        \/ MakePermanentCall(w, DOMAIN written)
        \/ MakePermanentListdir(w)
        \/ MakePermanentRename(w)
        \/ MakePermanentInterrupt(w)

SpecInterrupt == Init /\ [][NextInterrupt]_vars

\* C16 (as claimed): a make_permanent(k) that follows a make_permanent(k)
\* interrupted after some of its renames, whichever they were, returns
\* with k and every variation of k in the asset root and none of them in
\* the temporary folder.
C16_ResumedPromotionCompletes ==
    \A w \in Workers :
       (AtEnd(w, "make_permanent") /\ ret[w].resumes) =>
          /\ ret[w].pc = "returned"
          /\ \A f \in {ret[w].store_key} \cup VariationsOf(ret[w].store_key) :
                f \in DOMAIN perm /\ f \notin DOMAIN tmp

(***************************************************************************)
(* Racing writers.  Two callers at once, on an asset root that holds one   *)
(* temporary picture: each stores its own text file under the name        *)
(* 'photo', permanent or temporary, or generates the thumb of the picture, *)
(* one call after the other or both at once.                               *)
(***************************************************************************)
InitRace ==
    /\ perm = EmptyMap
    /\ tmp = [f \in {"photo.abc123.png"} |-> PrepImage(PhotoPng.file.stream)[1]]
    /\ tmpDir = TRUE
    /\ variations = InitialVariations
    /\ proc = [w \in Workers |-> Idle]
    /\ ret = [w \in Workers |-> NoRet]
    /\ written = [k \in {"photo.abc123.png"} |-> 1]
    /\ variationOf = {}

PhotoTxt == [file |-> [filename |-> "photo.txt", stream |-> Data("world")], name |-> ""]

NextRace ==
    \E w \in Workers :
        \/ StoreCall(w, IF w = 1 THEN {NotesTxt} ELSE {PhotoTxt})
        \/ StoreExistsPerm(w)
        \/ StoreExistsTmp(w)
        \/ StoreWrite(w)
        \/ GenerateVariationsCall(w, {"photo.abc123.png"}, {"v1"})
        \/ GetExistsPerm(w)
        \/ GetExistsTmp(w)
        \/ GenerateVariationsOpen(w)
        \/ GenerateVariationsTransform(w)
        \/ GenerateVariationsExistsPerm(w)
        \/ GenerateVariationsExistsTmp(w)
        \/ GenerateVariationsWrite(w)

SpecRace == InitRace /\ [][NextRace]_vars

\* Worker w's last call was a store, or a generate_variations of one
\* variation, that returned.
Created(w) ==
    \/ AtReturn(w, "store")
    \/ AtReturn(w, "generate_variations") /\ Len(ret[w].value) = 1

\* The key that call returned, and the bytes it wrote under the key.
CreatedKey(w) ==
    IF ret[w].op = "store" THEN ret[w].value.store_key ELSE ret[w].value[1].store_key

CreatedBytes(w) == IF ret[w].op = "store" THEN ret[w].asset_file ELSE ret[w].file

\* C17: when two calls that ran at once have returned the same key, each
\* of them found the key absent when it started and checked, both wrote
\* under it, and of the two objects one is left: with equal temporary
\* flags the key is in one folder and holds the bytes of one of the calls;
\* with different flags it is in both folders.
C17_RaceOutcome ==
    \A w1, w2 \in Workers :
       (w1 # w2 /\ Created(w1) /\ Created(w2) /\ CreatedKey(w1) = CreatedKey(w2)) =>
          LET k == CreatedKey(w1)
          IN  /\ k \notin DOMAIN ret[w1].pre.perm \cup DOMAIN ret[w1].pre.tmp
              /\ k \notin DOMAIN ret[w2].pre.perm \cup DOMAIN ret[w2].pre.tmp
              /\ written[k] = 2
              /\ IF ret[w1].temporary = ret[w2].temporary
                 THEN /\ (k \in DOMAIN tmp) = ret[w1].temporary
                      /\ (k \in DOMAIN perm) = ~ret[w1].temporary
                      /\ ContentOf(k) \in {CreatedBytes(w1), CreatedBytes(w2)}
                 ELSE /\ k \in DOMAIN perm
                      /\ k \in DOMAIN tmp
                      /\ \A w \in {w1, w2} :
                            CreatedBytes(w) = (IF ret[w].temporary THEN tmp[k] ELSE perm[k])

\* Two stores of different files have returned the same key, and the
\* bytes of the first are gone.
C17_Witness ==
    \E w1, w2 \in Workers :
       /\ w1 # w2
       /\ AtReturn(w1, "store")
       /\ AtReturn(w2, "store")
       /\ ret[w1].value.store_key = ret[w2].value.store_key
       /\ ret[w1].temporary = ret[w2].temporary
       /\ ret[w1].asset_file # ret[w2].asset_file
       /\ ContentOf(ret[w1].value.store_key) = ret[w2].asset_file

(***************************************************************************)
(* Reading during promotion.  Two callers at once, on the asset root of    *)
(* InitConc: they retrieve and promote the two pictures and generate the   *)
(* thumb of the temporary one.  Nothing is removed.                        *)
(***************************************************************************)
NextPromote ==
    \E w \in Workers :
        \/ RetrieveCall(w, {"photo.abc123.jpg", "photo.abc123.png"})
        \/ MakePermanentCall(w, {"photo.abc123.jpg", "photo.abc123.png"})
        \/ GenerateVariationsCall(w, {"photo.abc123.png"}, {"v1"})
        \/ GetExistsPerm(w)
        \/ GetExistsTmp(w)
        \/ RetrieveOpen(w)
        \/ MakePermanentListdir(w)
        \/ MakePermanentRename(w)
        \/ GenerateVariationsOpen(w)
        \/ GenerateVariationsTransform(w)
        \/ GenerateVariationsExistsPerm(w)
        \/ GenerateVariationsExistsTmp(w)
        \/ GenerateVariationsWrite(w)

SpecPromote == InitConc /\ [][NextPromote]_vars

\* Worker w's last call was retrieve(k) for an asset k that was on disk
\* when the call started (and has been since: nothing removes it).
AtEndOfRetrieve(w) ==
    /\ AtEnd(w, "retrieve")
    /\ ret[w].store_key \in DOMAIN ret[w].pre.perm \cup DOMAIN ret[w].pre.tmp

\* C18 (as claimed): retrieve(k) of an asset that is on disk throughout
\* returns the asset's bytes, whatever make_permanent(k) does meanwhile.
C18_RetrieveAlwaysFinds ==
    \A w \in Workers :
       AtEndOfRetrieve(w) =>
          /\ ret[w].pc = "returned"
          /\ ~ret[w].value.none
          /\ ret[w].value.stream = SourceOf(w)

\* C18 (amended): retrieve(k) of an asset that is on disk throughout
\* returns the asset's bytes, or, when the asset was temporary at the
\* start and has been promoted during the call, returns None (the rename
\* fell between the two checks of _get) or raises FileNotFoundError (it
\* fell between _get and open).  It returns no other bytes.
C18_RetrieveFindsUnlessPromoted ==
    \A w \in Workers :
       AtEndOfRetrieve(w) =>
          LET k == ret[w].store_key
              promoted == /\ k \in DOMAIN ret[w].pre.tmp
                          /\ k \notin DOMAIN ret[w].pre.perm
                          /\ k \in DOMAIN perm
                          /\ k \notin DOMAIN tmp
          IN  \/ /\ ret[w].pc = "returned"
                 /\ ~ret[w].value.none
                 /\ ret[w].value.stream = SourceOf(w)
              \/ /\ ret[w].pc = "returned"
                 /\ ret[w].value.none
                 /\ promoted
              \/ /\ ret[w].pc = "raised"
                 /\ ret[w].value = "FileNotFoundError"
                 /\ promoted

\* retrieve has returned None for the temporary picture, which the other
\* caller promoted during the call.
C18_Witness ==
    \E w \in Workers :
       /\ AtEndOfRetrieve(w)
       /\ ret[w].pc = "returned"
       /\ ret[w].value.none
       /\ ret[w].store_key = "photo.abc123.png"
       /\ "photo.abc123.png" \in DOMAIN perm

\* C19 (as claimed): make_permanent(k) of a stored temporary asset k moves
\* k and the variations generated from k and nothing else: every other
\* temporary file stays where it is and is not in the returned map.
C19_PromotionMovesOnlyGroup ==
    \A w \in Workers :
       LET k == ret[w].store_key
           pre == ret[w].pre
           group == {k} \cup VariationsOf(k)
       IN  (AtReturn(w, "make_permanent") /\ k \in DOMAIN written /\ k \in DOMAIN pre.tmp) =>
              /\ ~ret[w].value.none
              /\ \A f \in DOMAIN pre.tmp \ group :
                    /\ f \in DOMAIN tmp
                    /\ f \notin DOMAIN perm
                    /\ TmpPath(f) \notin DOMAIN ret[w].value.map

\* The ext an operation list asks for, as its caller wrote it: the format
\* of its last output operation, and 'jpg' when it has none.
AskedExt(ops) ==
    LET outs == SelectSeq(ops, LAMBDA o : o.op = "output")
    IN  IF outs = <<>> THEN "jpg" ELSE outs[Len(outs)].arg.format

\* C20 (as claimed): when generate_variations returns, the variations dicts
\* of the caller are as the caller wrote them, and every call made with
\* one of them, the first and any later one, returns the same ext for
\* each variation and has encoded it in the same format.
C20_VariationsArgumentUnchanged ==
    \A w \in Workers :
       (AtEndOfTransforms(w) /\ ret[w].pc = "returned") =>
          /\ variations = ImageVariations
          /\ \A i \in 1..Len(ret[w].value) :
                LET asked == ImageVariations[ret[w].req][i].ops
                IN  /\ ret[w].value[i].ext = AskedExt(asked)
                    /\ ContentOf(ret[w].value[i].store_key).format
                          = PillowFormat(FinalFormat(asked))

====
